---- MODULE Spec2Model ----
(***************************************************************************)
(* A model of app.py: the classroom service's relational store (classes,   *)
(* class_members, assignments, submissions), its per-class upload folders, *)
(* and its request handlers, each run by one of a few concurrent request   *)
(* contexts.  Texts are sequences of one-character strings so that         *)
(* str.strip() and string concatenation are computed, not assumed.         *)
(***************************************************************************)
EXTENDS Naturals, Sequences, FiniteSets

(* ------------------------------ bounds --------------------------------- *)
\* classes that create_class may insert
MaxClasses == 1
\* assignments that create_assignment may insert
MaxAssignments == 1
\* files that may be saved under the upload folder (materials and attachments)
MaxFiles == 2

(* ------------------------------ users ---------------------------------- *)
\* the users table after sign-up; Anon is a request with an empty session
Teachers == {"t1", "t2"}
Students == {"s1", "s2"}
Users == Teachers \cup Students
Anon == "anon"
Callers == Users \cup {Anon}

\* users.role, CHECK(role IN ('teacher','student')); session["role"] after login
Role(u) == IF u \in Teachers THEN "teacher" ELSE IF u \in Students THEN "student" ELSE "none"

NULL == "NULL"

(* ------------------------------ texts ---------------------------------- *)
NL == "\n"
Whitespace == {" ", NL}

\* str.strip(): drop leading and trailing whitespace
Strip(s) ==
  LET keep == {i \in 1..Len(s) : s[i] \notin Whitespace}
      lo == CHOOSE i \in keep : \A j \in keep : i <= j
      hi == CHOOSE i \in keep : \A j \in keep : j <= i
  IN IF keep = {} THEN <<>> ELSE SubSeq(s, lo, hi)

\* t occurs in s as a contiguous run
Contains(s, t) ==
  \E i \in 0..(Len(s) - Len(t)) : SubSeq(s, i + 1, i + Len(t)) = t

(* ------------------------------ files ---------------------------------- *)
ALLOWED_EXTENSIONS == {"pdf", "docx", "txt", "png", "jpg", "jpeg"}

\* str.lower() on the extensions the model uploads
Lower(e) == IF e = "PDF" THEN "pdf" ELSE IF e = "TXT" THEN "txt" ELSE e

\* a file name is its extension as typed ("" when the name has no dot)
allowed_file(ext) == ext # "" /\ Lower(ext) \in ALLOWED_EXTENSIONS

\* reading raises
Fail == <<"#FAIL">>

\* what the request carries when no file part was sent
NoFile == [ext |-> "", content |-> <<>>]
NoName == [cls |-> 0, uid |-> 0, ext |-> ""]

\* the name file.save() writes: f"{class_id}_{uuid4().hex}_{secure_filename(...)}"
DiskName(cls, uid, ext) == [cls |-> cls, uid |-> uid, ext |-> ext]

(* --------------------------- extraction -------------------------------- *)
\* for page in reader.pages: text = page.extract_text(); if text: full_text += text + "\n"
\* (a page that raises, or a reader that cannot be built, leaves the loop)
RECURSIVE PdfPages(_, _, _)
PdfPages(pages, i, full_text) ==
  IF i > Len(pages) THEN full_text
  ELSE IF pages[i] = Fail THEN full_text
  ELSE PdfPages(pages, i + 1,
                IF pages[i] # <<>> THEN full_text \o pages[i] \o <<NL>> ELSE full_text)

\* with open(path, "r", errors="ignore") as f: full_text += f.read() + "\n"
TxtRead(content, full_text) ==
  IF content[1] = Fail THEN full_text ELSE full_text \o content[1] \o <<NL>>

\* one turn of the loop over class_files: the try block and its except
ExtractInto(f, full_text) ==
  IF Lower(f.ext) = "pdf" THEN PdfPages(f.content, 1, full_text)
  ELSE IF Lower(f.ext) = "txt" THEN TxtRead(f.content, full_text)
  ELSE full_text

\* class_files = [... for f in os.listdir(folder_path) if allowed_file(f)]
ClassFiles(listing) == SelectSeq(listing, LAMBDA f : allowed_file(f.ext))

\* the loop with its try around the whole loop: the first file that raises ends it
RECURSIVE ExtractAllAborts(_, _, _)
ExtractAllAborts(files, i, full_text) ==
  IF i > Len(files) THEN full_text
  ELSE IF \E k \in 1..Len(files[i].content) : files[i].content[k] = Fail
  THEN ExtractInto(files[i], full_text)
  ELSE ExtractAllAborts(files, i + 1, ExtractInto(files[i], full_text))

\* full_text = ""; for path in class_files: ...
RECURSIVE ExtractAll(_, _, _)
ExtractAll(files, i, full_text) ==
  IF i > Len(files) THEN full_text
  ELSE ExtractAll(files, i + 1, ExtractInto(files[i], full_text))

BuildCorpus(listing) == ExtractAll(ClassFiles(listing), 1, <<>>)

(* --------------------------- generation -------------------------------- *)
Preamble == <<"Using the following course materials ...", NL, NL>>
Instruction == <<"Generate the quiz question as plain text.">>

\* system_prompt = f"...{full_text}"
SystemPrompt(full_text) == Preamble \o full_text

\* call_gemini_api: full_prompt = system_prompt + "\n\n" + prompt
FullPrompt(prompt, system_prompt) == system_prompt \o <<NL, NL>> \o prompt

\* call_gemini_api: return response.text.strip()
GeminiResult(response_text) == Strip(response_text)

(* ----------------------------- the store ------------------------------- *)
\* INTEGER PRIMARY KEY AUTOINCREMENT over a table no row is ever deleted from
NextId(rows) == Cardinality(rows) + 1

\* SELECT * FROM class_members WHERE class_id = ? AND student_id = ?
MemberRows(members, c, u) == {m \in members : m.class_id = c /\ m.student_id = u}
IsMember(members, c, u) == MemberRows(members, c, u) # {}

\* class_members without its UNIQUE(class_id, student_id) constraint
NoMemberConflict(members, c, u) == FALSE

\* UNIQUE(class_id, student_id): the INSERT of join_class raises IntegrityError
MemberConflict(members, c, u) == \E m \in members : m.class_id = c /\ m.student_id = u

\* INSERT INTO class_members (class_id, student_id) VALUES (?, ?)
InsertMember(members, c, u) ==
  members \cup {[id |-> NextId(members), class_id |-> c, student_id |-> u]}

\* SELECT * FROM submissions rows of one (assignment, student) key
KeyRows(rows, a, s) == {r \in rows : r.assignment_id = a /\ r.student_id = s}

\* the upsert without grade=NULL, feedback=NULL in its DO UPDATE SET
UpsertKeepsGrade(rows, a, s, fn, txt) ==
  IF KeyRows(rows, a, s) # {}
  THEN {IF r \in KeyRows(rows, a, s) THEN [r EXCEPT !.filename = fn, !.text = txt] ELSE r : r \in rows}
  ELSE rows \cup {[id |-> NextId(rows), assignment_id |-> a, student_id |-> s,
                   filename |-> fn, text |-> txt, grade |-> NULL, feedback |-> NULL]}

\* the upsert with filename=excluded.filename missing from its DO UPDATE SET
UpsertKeepsFile(rows, a, s, fn, txt) ==
  IF KeyRows(rows, a, s) # {}
  THEN {IF r \in KeyRows(rows, a, s)
        THEN [r EXCEPT !.text = txt, !.grade = NULL, !.feedback = NULL]
        ELSE r : r \in rows}
  ELSE rows \cup {[id |-> NextId(rows), assignment_id |-> a, student_id |-> s,
                   filename |-> fn, text |-> txt, grade |-> NULL, feedback |-> NULL]}

\* the upsert with its conflict target on student_id alone
UpsertByStudent(rows, a, s, fn, txt) ==
  IF \E r \in rows : r.student_id = s
  THEN {IF r.student_id = s
        THEN [r EXCEPT !.filename = fn, !.text = txt, !.grade = NULL, !.feedback = NULL]
        ELSE r : r \in rows}
  ELSE rows \cup {[id |-> NextId(rows), assignment_id |-> a, student_id |-> s,
                   filename |-> fn, text |-> txt, grade |-> NULL, feedback |-> NULL]}

\* INSERT INTO submissions ... ON CONFLICT(assignment_id, student_id) DO UPDATE SET
\*   filename=excluded.filename, text=excluded.text, grade=NULL, feedback=NULL
\* (submitted_at, which every write refreshes, is left out of the rows)
Upsert(rows, a, s, fn, txt) ==
  IF KeyRows(rows, a, s) # {}
  THEN {IF r \in KeyRows(rows, a, s)
        THEN [r EXCEPT !.filename = fn, !.text = txt, !.grade = NULL, !.feedback = NULL]
        ELSE r : r \in rows}
  ELSE rows \cup {[id |-> NextId(rows), assignment_id |-> a, student_id |-> s,
                   filename |-> fn, text |-> txt, grade |-> NULL, feedback |-> NULL]}

(* ------------------------------ state ---------------------------------- *)
VARIABLES
  classes,        \* classes table: classes[id] is teacher_id
  class_members,  \* class_members table
  assignments,    \* assignments table: assignments[id] is class_id
  submissions,    \* submissions table
  uploads,        \* uploads[c]: the files of uploads/class_<c>, in os.listdir order
  req             \* the requests being handled, one per request context

vars == <<classes, class_members, assignments, submissions, uploads, req>>

Procs == {"r1", "r2"}

\* class ids and assignment ids a URL may name (one more than can exist)
ClassArgs == 1..(MaxClasses + 1)
AssignmentArgs == 1..(MaxAssignments + 1)

NoResp == [status |-> 0, kind |-> "none", body |-> <<>>]
Idle == [op |-> "idle", pc |-> "idle", user |-> Anon, arg |-> 0, text |-> <<>>,
         file |-> NoFile, txt |-> <<>>, fn |-> NoName, class_files |-> <<>>,
         full_text |-> <<>>, sent |-> <<>>,
         calls |-> 0, raw |-> <<>>, resp |-> NoResp]

\* a request as it arrives
Request(op, pc, u, arg, text, file) ==
  [Idle EXCEPT !.op = op, !.pc = pc, !.user = u, !.arg = arg, !.text = text, !.file = file]

\* the handler returns
Done(r, status, kind, body) ==
  [r EXCEPT !.pc = "done", !.resp = [status |-> status, kind |-> kind, body |-> body]]

Init ==
  /\ classes = <<>>
  /\ class_members = {}
  /\ assignments = <<>>
  /\ submissions = {}
  /\ uploads = [c \in ClassArgs |-> <<>>]
  /\ req = [p \in Procs |-> Idle]

DbUnchanged == UNCHANGED <<classes, class_members, assignments, submissions>>

\* files saved so far, which stands for the uuid4 of the next one
FileCount == Cardinality({<<c, i>> \in ClassArgs \X (1..MaxFiles) : i <= Len(uploads[c])})

\* file.save(path): the new entry may show up anywhere in the directory listing
SavedAt(listing, k, f) == SubSeq(listing, 1, k) \o <<f>> \o SubSeq(listing, k + 1, Len(listing))

(* ------------------------- class management ---------------------------- *)
\* create_class (POST): only a teacher's session passes; code is a fresh uuid
create_class(p, u) ==
  /\ req[p].pc = "idle"
  /\ LET r == Request("create_class", "run", u, 0, <<>>, NoFile) IN
     IF Role(u) # "teacher"
     THEN /\ req' = [req EXCEPT ![p] = Done(r, 302, "redirect", <<"Only teachers can create classes.">>)]
          /\ UNCHANGED classes
     ELSE /\ Len(classes) < MaxClasses
          /\ classes' = Append(classes, u)
          /\ req' = [req EXCEPT ![p] = Done(r, 302, "redirect", <<"Class created">>)]
  /\ UNCHANGED <<class_members, assignments, submissions, uploads>>

\* request.form["code"].strip().upper() against classes.code, itself upper case:
\* a typed code is the class it spells (0: none) and how it was typed
TypedCodes == (0..MaxClasses) \X {"upper", "lower"}
NormalizeCode(code) == <<code[1], "upper">>
ClassByCode(cs, code) ==
  IF \E c \in 1..Len(cs) : <<c, "upper">> = NormalizeCode(code)
  THEN NormalizeCode(code)[1] ELSE 0

\* the handler without "session.get('role') != 'student'": any session may join
join_class_lookup_any_role(p, u, code) ==
  /\ req[p].pc = "idle"
  /\ LET cls == ClassByCode(classes, code)
         r == Request("join", "insert", u, cls, <<>>, NoFile) IN
     req' = [req EXCEPT ![p] =
       IF u = Anon THEN Done(r, 302, "redirect", <<"Only students can join classes.">>)
       ELSE IF cls = 0 THEN Done(r, 302, "redirect", <<"Invalid class code.">>)
       ELSE r]
  /\ DbUnchanged /\ UNCHANGED uploads

\* join_class (POST) up to the SELECT of the class
join_class_lookup(p, u, code) ==
  /\ req[p].pc = "idle"
  /\ LET cls == ClassByCode(classes, code)
         r == Request("join", "insert", u, cls, <<>>, NoFile) IN
     req' = [req EXCEPT ![p] =
       IF Role(u) # "student" THEN Done(r, 302, "redirect", <<"Only students can join classes.">>)
       ELSE IF cls = 0 THEN Done(r, 302, "redirect", <<"Invalid class code.">>)
       ELSE r]
  /\ DbUnchanged /\ UNCHANGED uploads

\* join_class: the INSERT, its commit, and the except IntegrityError branch
join_class_insert(p) ==
  /\ req[p].op = "join" /\ req[p].pc = "insert"
  /\ IF MemberConflict(class_members, req[p].arg, req[p].user)
     THEN /\ UNCHANGED class_members
          /\ req' = [req EXCEPT ![p] = Done(@, 302, "redirect", <<"Already a member of this class.">>)]
     ELSE /\ class_members' = InsertMember(class_members, req[p].arg, req[p].user)
          /\ req' = [req EXCEPT ![p] = Done(@, 302, "redirect", <<"Joined class">>)]
  /\ UNCHANGED <<classes, assignments, submissions, uploads>>

(* ------------------------ class detail and files ----------------------- *)
\* class_detail: the owner's page, else the member's page, else a redirect;
\* session["user_id"] of an empty session raises KeyError (a 500)
class_detail(p, u, c) ==
  /\ req[p].pc = "idle"
  /\ LET r == Request("class_detail", "run", u, c, <<>>, NoFile) IN
     req' = [req EXCEPT ![p] =
       IF c > Len(classes) THEN Done(r, 302, "redirect", <<"Class not found">>)
       ELSE IF Role(u) = "teacher" /\ classes[c] = u THEN Done(r, 200, "page", <<"class_detail_teacher">>)
       ELSE IF u = Anon THEN Done(r, 500, "error", <<"KeyError">>)
       ELSE IF ~IsMember(class_members, c, u) THEN Done(r, 302, "redirect", <<"You are not a member of this class.">>)
       ELSE Done(r, 200, "page", <<"class_detail_student">>)]
  /\ DbUnchanged /\ UNCHANGED uploads

\* the handler without "cls['teacher_id'] != session['user_id']": any teacher passes
upload_file_any_teacher(p, u, c, f) ==
  /\ req[p].pc = "idle"
  /\ LET r == Request("upload", "run", u, c, <<>>, f) IN
     IF u = Anon \/ Role(u) # "teacher" \/ c > Len(classes)
     THEN /\ req' = [req EXCEPT ![p] = Done(r, 302, "redirect", <<"Not authorized">>)]
          /\ UNCHANGED uploads
     ELSE IF f = NoFile \/ ~allowed_file(f.ext)
     THEN /\ req' = [req EXCEPT ![p] = Done(r, 302, "redirect", <<"File type not allowed.">>)]
          /\ UNCHANGED uploads
     ELSE /\ FileCount < MaxFiles
          /\ uploads' = [uploads EXCEPT ![c] =
               Append(@, [uid |-> FileCount + 1, ext |-> f.ext, content |-> f.content, via |-> "upload"])]
          /\ req' = [req EXCEPT ![p] = Done(r, 302, "redirect", <<"uploaded successfully.">>)]
  /\ DbUnchanged

\* upload_file: a teacher's session, the class's owner, a file part, an allowed type
upload_file(p, u, c, f) ==
  /\ req[p].pc = "idle"
  /\ LET r == Request("upload", "run", u, c, <<>>, f) IN
     IF u = Anon \/ Role(u) # "teacher" \/ c > Len(classes) \/ classes[c] # u
     THEN /\ req' = [req EXCEPT ![p] = Done(r, 302, "redirect", <<"Not authorized">>)]
          /\ UNCHANGED uploads
     ELSE IF f = NoFile
     THEN /\ req' = [req EXCEPT ![p] = Done(r, 302, "redirect", <<"No file selected">>)]
          /\ UNCHANGED uploads
     ELSE IF ~allowed_file(f.ext)
     THEN /\ req' = [req EXCEPT ![p] = Done(r, 302, "redirect", <<"File type not allowed.">>)]
          /\ UNCHANGED uploads
     ELSE /\ FileCount < MaxFiles
          /\ \E k \in 0..Len(uploads[c]) :
               uploads' = [uploads EXCEPT ![c] =
                 SavedAt(@, k, [uid |-> FileCount + 1, ext |-> f.ext, content |-> f.content, via |-> "upload"])]
          /\ req' = [req EXCEPT ![p] =
               Done([r EXCEPT !.fn = DiskName(c, FileCount + 1, f.ext)], 302, "redirect", <<"uploaded successfully.">>)]
  /\ DbUnchanged

\* the entries of uploads/class_<c> carrying a given uuid
Stored(c, uid) == {i \in 1..Len(uploads[c]) : uploads[c][i].uid = uid}

\* serve_class_file: send_from_directory(class_folder(class_id), filename)
serve_class_file(p, u, c, uid) ==
  /\ req[p].pc = "idle"
  /\ LET r == Request("serve", "run", u, c, <<>>, NoFile) IN
     req' = [req EXCEPT ![p] =
       IF Stored(c, uid) = {} THEN Done(r, 404, "error", <<"Not Found">>)
       ELSE LET f == uploads[c][CHOOSE i \in Stored(c, uid) : TRUE] IN
            Done([r EXCEPT !.fn = DiskName(c, uid, f.ext)], 200, "file", <<"attachment">>)]
  /\ DbUnchanged /\ UNCHANGED uploads

(* --------------------------- quiz generation --------------------------- *)
\* the handler testing the topic before it tests the session
generate_quiz_receive_topic_first(p, u, c, topic) ==
  /\ req[p].pc = "idle"
  /\ LET r == [Request("quiz", "member", u, c, topic, NoFile) EXCEPT !.txt = Strip(topic)] IN
     req' = [req EXCEPT ![p] =
       IF r.txt = <<>> THEN Done(r, 400, "error", <<"Topic cannot be empty">>)
       ELSE IF u = Anon THEN Done(r, 401, "error", <<"User not logged in">>)
       ELSE r]
  /\ DbUnchanged /\ UNCHANGED uploads

\* generate_quiz_class: the session check and the topic check
generate_quiz_receive(p, u, c, topic) ==
  /\ req[p].pc = "idle"
  /\ LET r == [Request("quiz", "member", u, c, topic, NoFile) EXCEPT !.txt = Strip(topic)] IN
     req' = [req EXCEPT ![p] =
       IF u = Anon THEN Done(r, 401, "error", <<"User not logged in">>)
       ELSE IF r.txt = <<>> THEN Done(r, 400, "error", <<"Topic cannot be empty">>)
       ELSE r]
  /\ DbUnchanged /\ UNCHANGED uploads

\* the handler without its membership check
generate_quiz_member_unchecked(p) ==
  /\ req[p].op = "quiz" /\ req[p].pc = "member"
  /\ req' = [req EXCEPT ![p] = [@ EXCEPT !.pc = "corpus"]]
  /\ DbUnchanged /\ UNCHANGED uploads

\* generate_quiz_class: the class_members lookup
generate_quiz_member(p) ==
  /\ req[p].op = "quiz" /\ req[p].pc = "member"
  /\ req' = [req EXCEPT ![p] =
       IF ~IsMember(class_members, @.arg, @.user)
       THEN Done(@, 403, "error", <<"You are not a member of this class.">>)
       ELSE [@ EXCEPT !.pc = "corpus"]]
  /\ DbUnchanged /\ UNCHANGED uploads

\* the handler testing "if not full_text" where the code tests full_text.strip()
generate_quiz_corpus_unstripped(p) ==
  /\ req[p].op = "quiz" /\ req[p].pc = "corpus"
  /\ LET listing == uploads[req[p].arg]
         class_files == ClassFiles(listing)
         full_text == BuildCorpus(listing) IN
     req' = [req EXCEPT ![p] =
       IF class_files = <<>> THEN Done(@, 400, "error", <<"No files uploaded for this class.">>)
       ELSE IF full_text = <<>>
       THEN Done([@ EXCEPT !.class_files = class_files, !.full_text = full_text],
                 400, "error", <<"Uploaded files are empty or unreadable.">>)
       ELSE [@ EXCEPT !.pc = "call", !.class_files = class_files, !.full_text = full_text]]
  /\ DbUnchanged /\ UNCHANGED uploads

\* the handler keeping the corpus of a class in a cache shared by the requests:
\* a request takes the files and corpus another request for the class has built
generate_quiz_corpus_cached(p) ==
  /\ req[p].op = "quiz" /\ req[p].pc = "corpus"
  /\ LET listing == uploads[req[p].arg]
         hits == {q \in Procs \ {p} : /\ req[q].op = "quiz" /\ req[q].arg = req[p].arg
                                       /\ req[q].class_files # <<>>}
         class_files == IF hits = {} THEN ClassFiles(listing)
                        ELSE req[CHOOSE q \in hits : TRUE].class_files
         full_text == ExtractAll(class_files, 1, <<>>) IN
     req' = [req EXCEPT ![p] =
       IF class_files = <<>> THEN Done(@, 400, "error", <<"No files uploaded for this class.">>)
       ELSE IF Strip(full_text) = <<>>
       THEN Done([@ EXCEPT !.class_files = class_files, !.full_text = full_text],
                 400, "error", <<"Uploaded files are empty or unreadable.">>)
       ELSE [@ EXCEPT !.pc = "call", !.class_files = class_files, !.full_text = full_text]]
  /\ DbUnchanged /\ UNCHANGED uploads

\* generate_quiz_class: list the folder, extract every file, test the corpus
generate_quiz_corpus(p) ==
  /\ req[p].op = "quiz" /\ req[p].pc = "corpus"
  /\ LET listing == uploads[req[p].arg]
         class_files == ClassFiles(listing)
         full_text == BuildCorpus(listing) IN
     req' = [req EXCEPT ![p] =
       IF class_files = <<>> THEN Done(@, 400, "error", <<"No files uploaded for this class.">>)
       ELSE IF Strip(full_text) = <<>>
       THEN Done([@ EXCEPT !.class_files = class_files, !.full_text = full_text],
                 400, "error", <<"Uploaded files are empty or unreadable.">>)
       ELSE [@ EXCEPT !.pc = "call", !.class_files = class_files, !.full_text = full_text]]
  /\ DbUnchanged /\ UNCHANGED uploads

\* the handler putting the caller's topic into the prompt it sends
generate_quiz_call_with_topic(p) ==
  /\ req[p].op = "quiz" /\ req[p].pc = "call"
  /\ req' = [req EXCEPT ![p] =
       [@ EXCEPT !.pc = "pending", !.calls = @ + 1,
                 !.sent = FullPrompt(Instruction \o req[p].txt, SystemPrompt(req[p].full_text))]]
  /\ DbUnchanged /\ UNCHANGED uploads

\* generate_quiz_class: build the prompts and send them; the call blocks
generate_quiz_call(p) ==
  /\ req[p].op = "quiz" /\ req[p].pc = "call"
  /\ req' = [req EXCEPT ![p] =
       [@ EXCEPT !.pc = "pending", !.calls = @ + 1,
                 !.sent = FullPrompt(Instruction, SystemPrompt(req[p].full_text))]]
  /\ DbUnchanged /\ UNCHANGED uploads

\* what the backend may answer
BackendTexts == {<<"q">>, <<" ", "q", NL>>}
BackendErrors == {<<"backend unavailable">>}

\* the backend answers: jsonify({"response": ai_response})
generate_quiz_answered(p, t) ==
  /\ req[p].op = "quiz" /\ req[p].pc = "pending"
  /\ req' = [req EXCEPT ![p] = Done([@ EXCEPT !.raw = t], 200, "response", GeminiResult(t))]
  /\ DbUnchanged /\ UNCHANGED uploads

\* the handler calling the backend a second time when the first call raises
generate_quiz_failed_retry(p, e) ==
  /\ req[p].op = "quiz" /\ req[p].pc = "pending"
  /\ req' = [req EXCEPT ![p] =
       IF @.calls < 2 THEN [@ EXCEPT !.pc = "call"] ELSE Done(@, 500, "error", e)]
  /\ DbUnchanged /\ UNCHANGED uploads

\* the backend call raises: jsonify({"error": str(e)}), 500
generate_quiz_failed(p, e) ==
  /\ req[p].op = "quiz" /\ req[p].pc = "pending"
  /\ req' = [req EXCEPT ![p] = Done(@, 500, "error", e)]
  /\ DbUnchanged /\ UNCHANGED uploads

(* ----------------------------- assignments ----------------------------- *)
\* create_assignment (POST): the class exists and the session's user owns it
create_assignment(p, u, c) ==
  /\ req[p].pc = "idle"
  /\ LET r == Request("create_assignment", "run", u, c, <<>>, NoFile) IN
     IF c > Len(classes) \/ classes[c] # u
     THEN /\ req' = [req EXCEPT ![p] = Done(r, 302, "redirect", <<"Not authorized">>)]
          /\ UNCHANGED assignments
     ELSE /\ Len(assignments) < MaxAssignments
          /\ assignments' = Append(assignments, c)
          /\ req' = [req EXCEPT ![p] = Done(r, 302, "redirect", <<"Assignment created">>)]
  /\ UNCHANGED <<classes, class_members, submissions, uploads>>

\* the handler without its membership check
submit_gate_any_user(p, u, a, text, f) ==
  /\ req[p].pc = "idle"
  /\ LET r == Request("submit", "save", u, a, text, f) IN
     req' = [req EXCEPT ![p] =
       IF a > Len(assignments) THEN Done(r, 302, "redirect", <<"Assignment not found">>)
       ELSE r]
  /\ DbUnchanged /\ UNCHANGED uploads

\* submit_assignment (POST): the assignment lookup and the membership check
submit_gate(p, u, a, text, f) ==
  /\ req[p].pc = "idle"
  /\ LET r == Request("submit", "save", u, a, text, f) IN
     req' = [req EXCEPT ![p] =
       IF a > Len(assignments) THEN Done(r, 302, "redirect", <<"Assignment not found">>)
       ELSE IF ~IsMember(class_members, assignments[a], u)
       THEN Done(r, 302, "redirect", <<"You are not in this class">>)
       ELSE r]
  /\ DbUnchanged /\ UNCHANGED uploads

\* submit_assignment: strip the text; save an allowed attachment in the class folder
submit_save(p) ==
  /\ req[p].op = "submit" /\ req[p].pc = "save"
  /\ LET c == assignments[req[p].arg]
         f == req[p].file IN
     IF f # NoFile /\ allowed_file(f.ext)
     THEN /\ FileCount < MaxFiles
          /\ \E k \in 0..Len(uploads[c]) :
               uploads' = [uploads EXCEPT ![c] =
                 SavedAt(@, k, [uid |-> FileCount + 1, ext |-> f.ext, content |-> f.content, via |-> "submit"])]
          /\ req' = [req EXCEPT ![p] =
               [@ EXCEPT !.pc = "upsert", !.txt = Strip(req[p].text), !.fn = DiskName(c, FileCount + 1, f.ext)]]
     ELSE /\ UNCHANGED uploads
          /\ req' = [req EXCEPT ![p] = [@ EXCEPT !.pc = "upsert", !.txt = Strip(req[p].text), !.fn = NoName]]
  /\ DbUnchanged

\* the upsert failing to get the database while another request's backend call
\* is outstanding, as if that request kept a transaction open across the call
submit_upsert_db_locked(p) ==
  /\ req[p].op = "submit" /\ req[p].pc = "upsert"
  /\ \A q \in Procs \ {p} : req[q].pc # "pending"
  /\ submissions' = Upsert(submissions, req[p].arg, req[p].user, req[p].fn, req[p].txt)
  /\ req' = [req EXCEPT ![p] = Done(@, 302, "redirect", <<"Submitted">>)]
  /\ UNCHANGED <<classes, class_members, assignments, uploads>>

\* submit_assignment: the upsert statement and its commit
submit_upsert(p) ==
  /\ req[p].op = "submit" /\ req[p].pc = "upsert"
  /\ submissions' = Upsert(submissions, req[p].arg, req[p].user, req[p].fn, req[p].txt)
  /\ req' = [req EXCEPT ![p] = Done(@, 302, "redirect", <<"Submitted">>)]
  /\ UNCHANGED <<classes, class_members, assignments, uploads>>

\* grading, done outside app.py: a teacher sets grade and feedback on a row
Grades == {"90"}
Feedbacks == {"good"}
Grade(row, g, fb) ==
  /\ row \in submissions
  /\ submissions' = (submissions \ {row}) \cup {[row EXCEPT !.grade = g, !.feedback = fb]}
  /\ UNCHANGED <<classes, class_members, assignments, uploads, req>>

\* close_db: the request context is torn down after the response
close_db(p) ==
  /\ req[p].pc = "done"
  /\ req' = [req EXCEPT ![p] = Idle]
  /\ DbUnchanged /\ UNCHANGED uploads

(* ------------------------------ requests ------------------------------- *)
\* files a browser may send: extension and what reading it yields
\* (a pdf: its pages; a txt: its text; Fail where reading raises)
Pdf(ext, pages) == [ext |-> ext, content |-> pages]
Txt(ext, text) == [ext |-> ext, content |-> <<text>>]
Other(ext) == [ext |-> ext, content |-> <<>>]

\* the whole application, its requests handled one after the other
AppTexts == {<<" ", "b">>}
AppTopics == {<<"m">>, <<" ">>}
AppMaterials == {Pdf("pdf", <<<<"x">>>>), Other("exe")}
AppAttachments == {Txt("txt", <<"w">>), NoFile}

Next ==
  \/ \E u \in Callers : create_class("r1", u)
  \/ \E u \in Callers, code \in TypedCodes : join_class_lookup("r1", u, code)
  \/ join_class_insert("r1")
  \/ \E u \in Callers, c \in ClassArgs : class_detail("r1", u, c)
  \/ \E u \in Callers, c \in ClassArgs, f \in AppMaterials : upload_file("r1", u, c, f)
  \/ \E u \in Callers, c \in ClassArgs, n \in 1..MaxFiles : serve_class_file("r1", u, c, n)
  \/ \E u \in Callers, c \in ClassArgs, t \in AppTopics : generate_quiz_receive("r1", u, c, t)
  \/ generate_quiz_member("r1")
  \/ generate_quiz_corpus("r1")
  \/ generate_quiz_call("r1")
  \/ \E t \in BackendTexts : generate_quiz_answered("r1", t)
  \/ \E e \in BackendErrors : generate_quiz_failed("r1", e)
  \/ \E u \in Callers, c \in ClassArgs : create_assignment("r1", u, c)
  \/ \E u \in Callers, a \in AssignmentArgs, t \in AppTexts, f \in AppAttachments :
       submit_gate("r1", u, a, t, f)
  \/ submit_save("r1")
  \/ submit_upsert("r1")
  \/ \E row \in submissions, g \in Grades, fb \in Feedbacks : Grade(row, g, fb)
  \/ close_db("r1")

Spec == Init /\ [][Next]_vars

\* class 1 of teacher t1 with student s1 as its member: the state after t1's
\* create_class and s1's join_class
Enrolled ==
  /\ classes = <<"t1">>
  /\ class_members = {[id |-> 1, class_id |-> 1, student_id |-> "s1"]}
  /\ submissions = {}
  /\ uploads = [c \in ClassArgs |-> <<>>]
  /\ req = [p \in Procs |-> Idle]

\* the submission ledger: class 1 has one assignment; students join and submit
\* one request after the other, and rows are graded
Texts == {<<"a">>, <<" ", "b">>}
Attachments == {Txt("txt", <<"w">>), Other("exe"), NoFile}

InitLedger == Enrolled /\ assignments = <<1>>

NextLedger ==
  \/ \E u \in Students, code \in TypedCodes : join_class_lookup("r1", u, code)
  \/ join_class_insert("r1")
  \/ \E u \in Students, a \in AssignmentArgs, t \in Texts, f \in Attachments :
       submit_gate("r1", u, a, t, f)
  \/ submit_save("r1")
  \/ submit_upsert("r1")
  \/ \E row \in submissions, g \in Grades, fb \in Feedbacks : Grade(row, g, fb)
  \/ close_db("r1")

SpecLedger == InitLedger /\ [][NextLedger]_vars

\* two request contexts at once: one student's concurrent joins and submissions
RaceAttachments == {Txt("txt", <<"w">>), NoFile}

NextRace ==
  \/ create_class("r1", "t1")
  \/ \E p \in Procs : join_class_lookup(p, "s1", <<1, "lower">>)
  \/ \E p \in Procs : join_class_insert(p)
  \/ create_assignment("r1", "t1", 1)
  \/ \E p \in Procs, t \in Texts, f \in RaceAttachments : submit_gate(p, "s1", 1, t, f)
  \/ \E p \in Procs : submit_save(p)
  \/ \E p \in Procs : submit_upsert(p)
  \/ \E row \in submissions, g \in Grades, fb \in Feedbacks : Grade(row, g, fb)
  \/ \E p \in Procs : close_db(p)

SpecRace == Init /\ [][NextRace]_vars

\* managing a class: who may create assignments and upload materials
NextManage ==
  \/ \E u \in Callers : create_class("r1", u)
  \/ \E u \in Callers, c \in ClassArgs, f \in AppMaterials : upload_file("r1", u, c, f)
  \/ \E u \in Callers, c \in ClassArgs : create_assignment("r1", u, c)
  \/ close_db("r1")

SpecManage == Init /\ [][NextManage]_vars

\* the quiz pipeline over varied materials of class 1
Topics == {<<"m">>, <<" ">>, <<"k", " ">>}
Materials == {Pdf("pdf", <<<<"x">>>>), Pdf("pdf", <<<<"x">>, <<"z">>>>),
              Pdf("PDF", <<<<"x">>, Fail>>), Pdf("pdf", <<<<>>>>),
              Pdf("pdf", <<Fail>>), Txt("txt", <<"y">>), Txt("TXT", <<>>), Txt("txt", Fail),
              Other("png")}

InitQuiz == Enrolled /\ assignments = <<>>

NextQuiz ==
  \/ \E u \in Students, code \in TypedCodes : join_class_lookup("r1", u, code)
  \/ join_class_insert("r1")
  \/ \E f \in Materials : upload_file("r1", "t1", 1, f)
  \/ \E u \in Callers, c \in ClassArgs, t \in Topics : generate_quiz_receive("r1", u, c, t)
  \/ generate_quiz_member("r1")
  \/ generate_quiz_corpus("r1")
  \/ generate_quiz_call("r1")
  \/ \E t \in BackendTexts : generate_quiz_answered("r1", t)
  \/ \E e \in BackendErrors : generate_quiz_failed("r1", e)
  \/ close_db("r1")

SpecQuiz == InitQuiz /\ [][NextQuiz]_vars

\* a quiz request of member s1 in one request context while the other context
\* serves a join, uploads, a submission and quiz requests of its own
OverlapMaterials == {Pdf("pdf", <<<<"x">>>>), Txt("txt", <<"y">>)}

NextOverlap ==
  \/ generate_quiz_receive("r1", "s1", 1, <<"m">>)
  \/ \E u \in Students, c \in ClassArgs : generate_quiz_receive("r2", u, c, <<"k", " ">>)
  \/ \E p \in Procs : generate_quiz_member(p)
  \/ \E p \in Procs : generate_quiz_corpus(p)
  \/ \E p \in Procs : generate_quiz_call(p)
  \/ \E p \in Procs, t \in BackendTexts : generate_quiz_answered(p, t)
  \/ \E p \in Procs, e \in BackendErrors : generate_quiz_failed(p, e)
  \/ join_class_lookup("r2", "s2", <<1, "lower">>)
  \/ join_class_insert("r2")
  \/ \E f \in OverlapMaterials : upload_file("r2", "t1", 1, f)
  \/ \E f \in RaceAttachments : submit_gate("r2", "s1", 1, <<"a">>, f)
  \/ submit_save("r2")
  \/ submit_upsert("r2")
  \/ \E p \in Procs : close_db(p)

SpecOverlap == InitLedger /\ [][NextOverlap]_vars

\* class 1 with two assignments: its students submit to both and are graded
\* while a student joins, a material is uploaded, assignments are asked for
\* and a quiz is generated
InitFrame == Enrolled /\ assignments = <<1, 1>>

NextFrame ==
  \/ join_class_lookup("r1", "s2", <<1, "lower">>)
  \/ join_class_insert("r1")
  \/ upload_file("r1", "t1", 1, Txt("txt", <<"y">>))
  \/ \E u \in Teachers : create_assignment("r1", u, 1)
  \/ generate_quiz_receive("r1", "s1", 1, <<"m">>)
  \/ generate_quiz_member("r1")
  \/ generate_quiz_corpus("r1")
  \/ generate_quiz_call("r1")
  \/ \E t \in BackendTexts : generate_quiz_answered("r1", t)
  \/ \E e \in BackendErrors : generate_quiz_failed("r1", e)
  \/ \E u \in Students, a \in AssignmentArgs : submit_gate("r1", u, a, <<" ", "b">>, NoFile)
  \/ submit_save("r1")
  \/ submit_upsert("r1")
  \/ \E row \in submissions, g \in Grades, fb \in Feedbacks : Grade(row, g, fb)
  \/ close_db("r1")

SpecFrame == InitFrame /\ [][NextFrame]_vars

\* the gates of joining and submitting, tried by every kind of caller on
\* assignments that exist and that do not
NextGate ==
  \/ \E u \in Callers, code \in TypedCodes : join_class_lookup("r1", u, code)
  \/ join_class_insert("r1")
  \/ \E u \in Callers, a \in AssignmentArgs, t \in AppTexts, f \in Attachments :
       submit_gate("r1", u, a, t, f)
  \/ submit_save("r1")
  \/ submit_upsert("r1")
  \/ \E row \in submissions, g \in Grades, fb \in Feedbacks : Grade(row, g, fb)
  \/ close_db("r1")

SpecGate == InitLedger /\ [][NextGate]_vars

(* ------------------------------- claims -------------------------------- *)
\* the rows of one (assignment, student) key, read off the table directly
RowsOf(rows, a, s) == {r \in rows : r.assignment_id = a /\ r.student_id = s}

\* context p executes the upsert statement in this step
SubmitCommits(p) == req[p].op = "submit" /\ req[p].pc = "upsert" /\ req'[p].pc = "done"

\* row r references a stored copy of the file f, in class folder c
RefersTo(files, c, r, f) ==
  /\ r.filename # NoName
  /\ \E i \in 1..Len(files[c]) :
       /\ files[c][i].uid = r.filename.uid
       /\ files[c][i].ext = f.ext /\ files[c][i].content = f.content

\* C1 as stated: after a submit for (A, S) the ledger holds exactly one row for
\* (A, S), whose text is the text of that call, whose file reference is the
\* call's file (null when it carried none), and whose grade and feedback are null.
C1_AsStated ==
  [][\A p \in Procs : SubmitCommits(p) =>
       \E r \in submissions' :
         /\ RowsOf(submissions', req[p].arg, req[p].user) = {r}
         /\ r.text = req[p].text
         /\ IF req[p].file = NoFile THEN r.filename = NoName
            ELSE RefersTo(uploads', assignments[req[p].arg], r, req[p].file)
         /\ r.grade = NULL /\ r.feedback = NULL]_vars

\* C1 amended: after a submit for (A, S), whatever row and grading came before,
\* the ledger holds exactly one row for (A, S); its text is the call's text with
\* leading and trailing whitespace removed; its file reference names the stored
\* copy of the call's file when that file has an allowed extension and is null
\* otherwise; its grade and feedback are null.
C1_ResubmitReplaces ==
  [][\A p \in Procs : SubmitCommits(p) =>
       \E r \in submissions' :
         /\ RowsOf(submissions', req[p].arg, req[p].user) = {r}
         /\ r.text = Strip(req[p].text)
         /\ IF req[p].file = NoFile \/ Lower(req[p].file.ext) \notin ALLOWED_EXTENSIONS
            THEN r.filename = NoName
            ELSE RefersTo(uploads', assignments[req[p].arg], r, req[p].file)
         /\ r.grade = NULL /\ r.feedback = NULL]_vars

\* a second submit has replaced the first: two attachments were saved by
\* submissions, the ledger has one row, and it carries the finished call's values
C1_Witness ==
  /\ req["r1"].op = "submit" /\ req["r1"].pc = "done" /\ req["r1"].resp.body = <<"Submitted">>
  /\ Len(SelectSeq(uploads[1], LAMBDA f : f.via = "submit")) = 2
  /\ \E r \in submissions :
       /\ submissions = {r}
       /\ r.text = req["r1"].txt /\ r.filename = req["r1"].fn /\ r.filename.uid = 2
       /\ r.grade = NULL

\* C2: under concurrent submits for one (assignment, student) key, no state has
\* two rows for a key, and every row a step writes takes its text and its file
\* reference together from the one call that executes in that step, with grade
\* and feedback null; the only other change to a row is grading, which leaves
\* text and file reference alone.
C2_AtomicUpsert ==
  [][/\ \A a \in AssignmentArgs, s \in Callers : Cardinality(RowsOf(submissions', a, s)) <= 1
     /\ \A r \in submissions' \ submissions :
          \/ \E p \in Procs :
               /\ SubmitCommits(p)
               /\ r.assignment_id = req[p].arg /\ r.student_id = req[p].user
               /\ r.text = req[p].txt /\ r.filename = req[p].fn
               /\ r.grade = NULL /\ r.feedback = NULL
          \/ \E old \in submissions :
               /\ \A p \in Procs : ~SubmitCommits(p)
               /\ old.id = r.id /\ old.text = r.text /\ old.filename = r.filename]_vars

\* two overlapping submits for one key have both finished: r1 saved its
\* attachment first, r2 wrote its row before r1 did, and the one row left is r1's
C2_Witness ==
  /\ req["r1"].op = "submit" /\ req["r1"].pc = "done"
  /\ req["r2"].op = "submit" /\ req["r2"].pc = "done"
  /\ req["r1"].user = req["r2"].user /\ req["r1"].arg = req["r2"].arg
  /\ req["r1"].txt # req["r2"].txt
  /\ req["r1"].fn.uid = 1 /\ req["r2"].fn.uid = 2
  /\ \E r \in submissions :
       submissions = {r} /\ r.text = req["r1"].txt /\ r.filename = req["r1"].fn /\ r.grade = NULL

\* the membership relation, read off the table directly
Belongs(c, u) == \E m \in class_members : m.class_id = c /\ m.student_id = u

\* quiz responses by the error kinds of the specification
Forbidden(resp) == resp.status = 403 /\ resp.kind = "error"
NoMaterials(resp) ==
  /\ resp.status = 400 /\ resp.kind = "error"
  /\ resp.body \in {<<"No files uploaded for this class.">>,
                    <<"Uploaded files are empty or unreadable.">>}
InvalidInput(resp) == resp.status = 400 /\ resp.body = <<"Topic cannot be empty">>

QuizDone(p) == req[p].op = "quiz" /\ req[p].pc = "done"

\* C3 as stated: a quiz request by an authenticated non-member is answered
\* Forbidden, with or without materials, and no backend call is made for it.
C3_AsStated ==
  \A p \in Procs :
    (QuizDone(p) /\ req[p].user # Anon /\ ~Belongs(req[p].arg, req[p].user)) =>
      (Forbidden(req[p].resp) /\ req[p].calls = 0 /\ req[p].sent = <<>>)

\* C3 amended: a quiz request by an authenticated non-member whose topic is
\* non-empty after trimming is answered Forbidden, with or without materials,
\* and no backend call is made for it.
C3_NonMemberForbidden ==
  \A p \in Procs :
    (/\ QuizDone(p) /\ req[p].user # Anon /\ ~Belongs(req[p].arg, req[p].user)
     /\ \E i \in 1..Len(req[p].text) : req[p].text[i] \notin Whitespace) =>
      (Forbidden(req[p].resp) /\ req[p].calls = 0 /\ req[p].sent = <<>>)

\* a student outside class 1 was refused a quiz on class 1 although the class
\* holds a readable material
C3_Witness ==
  /\ QuizDone("r1") /\ req["r1"].user \in Students /\ req["r1"].arg = 1
  /\ ~Belongs(1, req["r1"].user)
  /\ Forbidden(req["r1"].resp)
  /\ \E i \in 1..Len(uploads[1]) : uploads[1][i].content = <<<<"x">>>>

\* a text with nothing but whitespace in it (the empty text included)
Blank(t) == \A i \in 1..Len(t) : t[i] \in Whitespace

\* the types the pipeline extracts: PDF and plain text, by extension
Extractable(f) == Lower(f.ext) \in {"pdf", "txt"}
\* reading the file raises at some point
Raising(f) == Extractable(f) /\ \E k \in 1..Len(f.content) : f.content[k] = Fail
\* no page of the file yields any text
NoText(f) == \A k \in 1..Len(f.content) : f.content[k] = Fail \/ Blank(f.content[k])

\* a readable file's text: its pages in order, joined by newline
RECURSIVE JoinPages(_, _)
JoinPages(pages, i) ==
  IF i > Len(pages) THEN <<>>
  ELSE IF i = Len(pages) THEN pages[i]
  ELSE pages[i] \o <<NL>> \o JoinPages(pages, i + 1)
TextOf(f) == JoinPages(f.content, 1)

\* a member's quiz request with a usable topic, its corpus stage behind it
PastCorpus(p) ==
  /\ req[p].op = "quiz" /\ req[p].pc \in {"call", "pending", "done"}
  /\ req[p].user # Anon /\ ~Blank(req[p].text) /\ Belongs(req[p].arg, req[p].user)

\* C4: for a member with a non-empty topic, a corpus that is empty or only
\* whitespace ends the request with NoMaterials (status 400) and without any
\* backend call; so it is when the class holds only files of types that are
\* not extracted, and when its only extractable file yields no text.
C4_EmptyCorpusNoMaterials ==
  \A p \in Procs : PastCorpus(p) =>
    LET L == uploads[req[p].arg] IN
      (\/ Blank(req[p].full_text)
       \/ \A i \in 1..Len(L) : ~Extractable(L[i])
       \/ \E i \in 1..Len(L) : /\ Extractable(L[i]) /\ NoText(L[i])
                               /\ \A j \in 1..Len(L) : j # i => ~Extractable(L[j]))
      => (/\ req[p].pc = "done" /\ NoMaterials(req[p].resp)
          /\ req[p].calls = 0 /\ req[p].sent = <<>>)

\* the class's only extractable file is an empty text file: the corpus built
\* is a lone newline and the request ended with NoMaterials
C4_Witness ==
  /\ PastCorpus("r1") /\ req["r1"].full_text = <<NL>>
  /\ \E i \in 1..Len(uploads[1]) : uploads[1][i].content = <<<<>>>> /\ Lower(uploads[1][i].ext) = "txt"
  /\ NoMaterials(req["r1"].resp)

\* C5: when extraction raises on a file of the class, every other extractable
\* file that reads without error and has text has that text in the corpus,
\* wherever the failing file stands in the listing; the request is then not
\* refused for want of materials, and the only errors it can end with are
\* NoMaterials and the backend's own failure.
C5_FailureStaysLocal ==
  \A p \in Procs : PastCorpus(p) =>
    LET L == uploads[req[p].arg] IN
      (\E i \in 1..Len(L) : Raising(L[i])) =>
        /\ \A j \in 1..Len(L) :
             (Extractable(L[j]) /\ ~Raising(L[j]) /\ ~Blank(TextOf(L[j]))) =>
               (Contains(req[p].full_text, TextOf(L[j])) /\ ~NoMaterials(req[p].resp))
        /\ (req[p].pc = "done" /\ req[p].resp.kind = "error") =>
             \/ NoMaterials(req[p].resp)
             \/ req[p].resp.status = 500 /\ req[p].resp.body \in BackendErrors /\ req[p].calls = 1

\* the first file listed cannot be read, the second one can: its text is in
\* the corpus that was sent to the backend
C5_Witness ==
  /\ PastCorpus("r1") /\ req["r1"].pc = "pending"
  /\ Len(uploads[1]) = 2
  /\ Raising(uploads[1][1]) /\ NoText(uploads[1][1])
  /\ ~Raising(uploads[1][2]) /\ Extractable(uploads[1][2])
  /\ req["r1"].full_text = TextOf(uploads[1][2]) \o <<NL>>

\* C8 as stated: on success the response is the backend's text, unmodified.
C8_AsStated ==
  \A p \in Procs : (QuizDone(p) /\ req[p].resp.status = 200) => req[p].resp.body = req[p].raw

\* the files of a listing that were uploaded as class materials and are extractable
IsMaterial(f) == f.via = "upload" /\ Extractable(f)

\* C6 as stated: whatever was uploaded and submitted, the corpus a quiz request
\* builds for a class holds text only from extractable files uploaded as
\* materials of that class: every character of it, newlines aside, is a
\* character of such a file.
C6_AsStated ==
  \A p \in Procs :
    (req[p].op = "quiz" /\ req[p].pc \in {"call", "pending", "done"}) =>
      LET L == uploads[req[p].arg] IN
        \A k \in 1..Len(req[p].full_text) :
          \/ req[p].full_text[k] = NL
          \/ \E i \in 1..Len(L), n \in 1..2 :
               /\ IsMaterial(L[i]) /\ n <= Len(L[i].content) /\ L[i].content[n] # Fail
               /\ \E m \in 1..Len(L[i].content[n]) : L[i].content[n][m] = req[p].full_text[k]

\* a finished request that handed out content of the class it names
Reveals(r) ==
  /\ r.pc = "done" /\ r.resp.status = 200
  /\ \/ r.op = "class_detail" /\ r.resp.kind = "page"
     \/ r.op = "serve" /\ r.resp.kind = "file"
     \/ r.op = "quiz" /\ r.resp.kind = "response"

\* C7 as stated: no class detail view, file download or quiz generation hands
\* content of a class to a student outside the class or to a caller without a
\* session.
C7_AsStated ==
  \A p \in Procs :
    Reveals(req[p]) =>
      ~(\/ req[p].user = Anon
        \/ req[p].user \in Students /\ ~Belongs(req[p].arg, req[p].user))

\* the teacher who owns class c
Owns(u, c) == u \in Teachers /\ c \in 1..Len(classes) /\ classes[c] = u

\* material files stored so far
MaterialCount(files) ==
  Cardinality({<<c, i>> \in ClassArgs \X (1..(MaxFiles + 1)) : i <= Len(files[c]) /\ files[c][i].via = "upload"})

\* context p handles a material upload or an assignment creation in this step
Manages(p) == req[p].pc = "idle" /\ req'[p].op \in {"upload", "create_assignment"}

\* C9: an assignment is created or a material stored only by a request of the
\* teacher who owns the class; such a request by anyone else (a student,
\* another teacher, no session, a class that does not exist) is answered
\* "Not authorized" and leaves assignments and stored files as they were.
C9_OwnerOnly ==
  [][/\ \A p \in Procs :
          (Manages(p) /\ ~Owns(req'[p].user, req'[p].arg)) =>
            /\ assignments' = assignments /\ uploads' = uploads
            /\ req'[p].resp.body = <<"Not authorized">>
     /\ (assignments' # assignments \/ MaterialCount(uploads') # MaterialCount(uploads)) =>
          \E p \in Procs : Manages(p) /\ Owns(req'[p].user, req'[p].arg)]_vars

\* the other teacher tried to upload a pdf to t1's class and was turned away
C9_Witness ==
  /\ classes = <<"t1">>
  /\ req["r1"].op = "upload" /\ req["r1"].pc = "done" /\ req["r1"].user = "t2" /\ req["r1"].arg = 1
  /\ req["r1"].file.ext = "pdf"
  /\ req["r1"].resp.body = <<"Not authorized">>
  /\ MaterialCount(uploads) = 0

\* context p executes the INSERT of join_class in this step
JoinCommits(p) == req[p].op = "join" /\ req[p].pc = "insert" /\ req'[p].pc = "done"

\* C10: under concurrent joins no (class, student) pair ever has two rows in
\* class_members, and the INSERT of a join by a student who already is a
\* member is answered "Already a member" and leaves class_members unchanged.
C10_MembershipUnique ==
  [][/\ \A c \in ClassArgs, u \in Callers :
          Cardinality({m \in class_members' : m.class_id = c /\ m.student_id = u}) <= 1
     /\ \A p \in Procs :
          (JoinCommits(p) /\ Belongs(req[p].arg, req[p].user)) =>
            /\ class_members' = class_members
            /\ req'[p].resp.body = <<"Already a member of this class.">>]_vars

\* two joins of one student to one class were in flight together: one joined,
\* the other was told the student is a member already; one row is stored
C10_Witness ==
  /\ req["r1"].op = "join" /\ req["r2"].op = "join"
  /\ req["r1"].user = req["r2"].user /\ req["r1"].arg = req["r2"].arg
  /\ req["r1"].resp.body = <<"Joined class">>
  /\ req["r2"].resp.body = <<"Already a member of this class.">>
  /\ Cardinality(class_members) = 1

\* the listing as it would be without the files whose reading raises
WithoutRaising(listing) == SelectSeq(listing, LAMBDA f : ~Raising(f))

\* C11 as stated: a file whose extraction raises at any point, a PDF failing on
\* a later page included, contributes nothing: the corpus a request builds
\* equals the corpus of the same folder without the files that raise.
C11_AsStated ==
  \A p \in Procs : PastCorpus(p) =>
    req[p].full_text = BuildCorpus(WithoutRaising(uploads[req[p].arg]))

Unauthenticated(resp) == resp.status = 401 /\ resp.kind = "error"

\* C12: a quiz request is checked for a session, then for a topic that is
\* non-empty after trimming, then for membership of the class, then for a
\* non-empty corpus.  A request that fails a check ends with that check's error
\* (Unauthenticated, InvalidInput, Forbidden, NoMaterials), whatever the later
\* checks would have said; it has then built no corpus if the failed check
\* comes before the corpus, and it has never called the backend.  A request
\* that called the backend has passed all four.
C12_CheckOrder ==
  \A p \in Procs : req[p].op = "quiz" =>
    LET r == req[p]
        early == r.full_text = <<>> /\ r.calls = 0 /\ r.sent = <<>> IN
      /\ r.user = Anon => (r.pc = "done" /\ Unauthenticated(r.resp) /\ early)
      /\ (r.user # Anon /\ Blank(r.text)) => (r.pc = "done" /\ InvalidInput(r.resp) /\ early)
      /\ (r.user # Anon /\ ~Blank(r.text) /\ ~Belongs(r.arg, r.user)) =>
           (r.pc \in {"member", "done"} /\ (r.pc = "done" => Forbidden(r.resp)) /\ early)
      /\ (r.user # Anon /\ ~Blank(r.text) /\ Belongs(r.arg, r.user) /\ r.pc = "done") =>
           /\ NoMaterials(r.resp) <=> Blank(r.full_text)
           /\ NoMaterials(r.resp) => (r.calls = 0 /\ r.sent = <<>>)
           /\ ~NoMaterials(r.resp) => (r.calls = 1 /\ r.resp.status \in {200, 500})
      /\ r.calls > 0 =>
           (r.user # Anon /\ ~Blank(r.text) /\ Belongs(r.arg, r.user) /\ ~Blank(r.full_text))

\* a request that would fail every check (no session, a blank topic, a class
\* the caller is no member of and that has no files) was answered
\* Unauthenticated, the first of them
C12_Witness ==
  /\ QuizDone("r1") /\ req["r1"].user = Anon /\ Blank(req["r1"].text)
  /\ req["r1"].arg = 2 /\ uploads[2] = <<>>
  /\ Unauthenticated(req["r1"].resp)

\* the response kinds a quiz request can end with
GenerationFailed(resp) == resp.status = 500 /\ resp.kind = "error" /\ resp.body \in BackendErrors
Generated(resp) == resp.status = 200 /\ resp.kind = "response"

\* C13: a quiz request calls the backend at most once.  The step that ends a
\* pending call ends the request: with the generated response, or, when the
\* call raised, with GenerationFailed (status 500) whose body is the backend's
\* error text; no further call is made.  A request has no outcome before it
\* ends, and the outcome it ends with is a response or an error and stays as
\* it is until the request context is torn down.
C13_SingleCall ==
  [][\A p \in Procs :
       /\ req'[p].calls <= 1
       /\ (req[p].op = "quiz" /\ req[p].pc = "pending" /\ req'[p] # req[p]) =>
            /\ req'[p].pc = "done" /\ req'[p].calls = 1 /\ req'[p].sent = req[p].sent
            /\ Generated(req'[p].resp) \/ GenerationFailed(req'[p].resp)
       /\ (req'[p].op = "quiz" /\ req'[p].pc # "done") => req'[p].resp = NoResp
       /\ (req'[p].op = "quiz" /\ req'[p].pc = "done") => req'[p].resp.kind \in {"response", "error"}
       /\ (req[p].op = "quiz" /\ req[p].pc = "done" /\ req'[p] # req[p]) => req'[p] = Idle]_vars

\* the one backend call of a request raised and the request ended with the
\* backend's error text
C13_Witness ==
  /\ QuizDone("r1") /\ req["r1"].calls = 1 /\ req["r1"].sent # <<>>
  /\ GenerationFailed(req["r1"].resp) /\ req["r1"].resp.body = <<"backend unavailable">>

\* a quiz request of context p that has sent its generation request
HasSent(p) == req[p].op = "quiz" /\ req[p].calls > 0

\* C14: two quiz requests by members for the same class that listed the same
\* files send the same generation request to the backend, whatever their
\* topics: the fixed preamble, the corpus, and the fixed instruction.
C14_TopicUnused ==
  \A p, q \in Procs :
    (/\ HasSent(p) /\ HasSent(q) /\ req[p].arg = req[q].arg
     /\ req[p].class_files = req[q].class_files) =>
      /\ req[p].sent = req[q].sent
      /\ req[p].sent = Preamble \o req[p].full_text \o <<NL, NL>> \o Instruction

\* two members' requests for class 1 with different topics are both waiting
\* for the backend, having listed the same two files and sent the same request
C14_Witness ==
  /\ HasSent("r1") /\ HasSent("r2") /\ req["r1"].pc = "pending" /\ req["r2"].pc = "pending"
  /\ req["r1"].arg = 1 /\ req["r2"].arg = 1
  /\ Strip(req["r1"].text) # Strip(req["r2"].text)
  /\ Len(req["r1"].class_files) = 2 /\ req["r1"].class_files = req["r2"].class_files
  /\ req["r1"].sent = req["r2"].sent

\* context p's submit writes the key of row r in this step
WritesKeyOf(p, r) ==
  SubmitCommits(p) /\ r.assignment_id = req[p].arg /\ r.student_id = req[p].user

\* the step is the out-of-band grading of row old into row new
Grading(old, new) ==
  /\ req' = req
  /\ new = [old EXCEPT !.grade = new.grade, !.feedback = new.feedback]

\* C15: a row of the ledger leaves it or enters it only in the step of a
\* submit whose (assignment, student) key is the row's key, grading aside: a
\* submit for (A, S) leaves the rows of other students and of S's other
\* assignments as they are, grade and feedback included, and the steps of
\* join, upload, create assignment and quiz generation leave every row as it is.
C15_SubmitFrame ==
  [][/\ \A r \in submissions \ submissions' :
          \/ \E p \in Procs : WritesKeyOf(p, r)
          \/ \E new \in submissions' \ submissions : Grading(r, new)
     /\ \A r \in submissions' \ submissions :
          \/ \E p \in Procs : WritesKeyOf(p, r)
          \/ \E old \in submissions \ submissions' : Grading(old, r)
     /\ \A p \in Procs :
          (req'[p] # req[p] /\ req'[p].op \in {"join", "upload", "create_assignment", "quiz"}) =>
            submissions' = submissions]_vars

\* s1 has resubmitted assignment 1: that row is ungraded again, while s1's row
\* for assignment 2 and s2's row for assignment 1 still carry their grades
C15_Witness ==
  /\ req["r1"].op = "submit" /\ req["r1"].pc = "done" /\ req["r1"].resp.body = <<"Submitted">>
  /\ req["r1"].user = "s1" /\ req["r1"].arg = 1
  /\ \E r \in RowsOf(submissions, 1, "s1") : r.grade = NULL /\ r.text = req["r1"].txt
  /\ \E r \in RowsOf(submissions, 2, "s1") : r.grade = "90" /\ r.feedback = "good"
  /\ \E r \in RowsOf(submissions, 1, "s2") : r.grade = "90" /\ r.feedback = "good"

\* request r names an assignment that does not exist, or its caller has no
\* session or is no member of the assignment's class
GateFails(r) ==
  \/ r.arg \notin 1..Len(assignments)
  \/ r.user = Anon
  \/ ~Belongs(assignments[r.arg], r.user)

\* C16: a submit request that fails its gate is answered at once with the
\* gate's refusal and leaves the ledger and every upload folder as they were;
\* and a step of a submit request changes the ledger or stores a file only if
\* the request passes the gate.
C16_FailedGateNoEffect ==
  [][\A p \in Procs :
       /\ (req[p].pc = "idle" /\ req'[p].op = "submit" /\ GateFails(req'[p])) =>
            /\ req'[p].pc = "done"
            /\ req'[p].resp.body \in {<<"Assignment not found">>, <<"You are not in this class">>}
            /\ submissions' = submissions /\ uploads' = uploads
       /\ (req[p].op = "submit" /\ req'[p] # req[p]
           /\ (submissions' # submissions \/ uploads' # uploads)) => ~GateFails(req[p])]_vars

\* s2, who is in no class, submitted an allowed attachment to assignment 1 and
\* was refused: the ledger still holds s1's graded row alone, and the folder
\* holds s1's attachment alone
C16_Witness ==
  /\ req["r1"].op = "submit" /\ req["r1"].pc = "done" /\ req["r1"].user = "s2" /\ req["r1"].arg = 1
  /\ req["r1"].file = Txt("txt", <<"w">>) /\ ~Belongs(1, "s2")
  /\ req["r1"].resp.body = <<"You are not in this class">>
  /\ Len(uploads[1]) = 1
  /\ \E r \in submissions : submissions = {r} /\ r.student_id = "s1" /\ r.grade = "90" /\ r.filename.uid = 1

\* C20: in every state, each row of the ledger names an assignment that exists
\* and a student who is a member of that assignment's class, and each row of
\* class_members names a user whose role is student.
C20_RowsBelongToMembers ==
  /\ \A r \in submissions :
       /\ r.assignment_id \in 1..Len(assignments)
       /\ Belongs(assignments[r.assignment_id], r.student_id)
  /\ \A m \in class_members :
       /\ m.class_id \in 1..Len(classes)
       /\ m.student_id \in Users /\ Role(m.student_id) = "student"

\* s2 joined class 1 and then submitted to its assignment: s2 has a membership
\* row and a ledger row, after teachers and callers without a session have
\* been turned away by both handlers
C20_Witness ==
  /\ Belongs(1, "s2") /\ Cardinality(class_members) = 2
  /\ RowsOf(submissions, 1, "s2") # {} /\ RowsOf(submissions, 1, "s1") # {}
  /\ req["r1"].op = "join" /\ req["r1"].user = "t1" /\ req["r1"].pc = "done"
  /\ req["r1"].resp.body = <<"Only students can join classes.">>

\* the next step of context q's request can be taken now (a new request can
\* start, where q is free); saving a file is left out where the folder cannot
\* take another one
CanProceed(q) ==
  LET r == req[q] IN
    /\ r.pc = "idle" =>
         /\ ENABLED join_class_lookup(q, "s2", <<1, "lower">>)
         /\ ENABLED submit_gate(q, "s1", 1, <<"a">>, NoFile)
         /\ \A c \in ClassArgs : ENABLED generate_quiz_receive(q, "s1", c, <<"k", " ">>)
         /\ FileCount < MaxFiles => ENABLED upload_file(q, "t1", 1, Txt("txt", <<"y">>))
    /\ (r.op = "join" /\ r.pc = "insert") => ENABLED join_class_insert(q)
    /\ (r.op = "submit" /\ r.pc = "save" /\ (r.file = NoFile \/ FileCount < MaxFiles)) =>
         ENABLED submit_save(q)
    /\ (r.op = "submit" /\ r.pc = "upsert") => ENABLED submit_upsert(q)
    /\ (r.op = "quiz" /\ r.pc = "member") => ENABLED generate_quiz_member(q)
    /\ (r.op = "quiz" /\ r.pc = "corpus") => ENABLED generate_quiz_corpus(q)
    /\ (r.op = "quiz" /\ r.pc = "call") => ENABLED generate_quiz_call(q)
    /\ r.pc = "done" => ENABLED close_db(q)

\* C17: while a quiz request waits for a backend call that has not returned,
\* every other request context can start a join, an upload, a submit or a quiz
\* request, and can take each step of the request it is handling up to its
\* response and its teardown: nothing the other handlers need is held by the
\* waiting request.
C17_PendingBlocksOnlyItself ==
  \A p \in Procs : (req[p].op = "quiz" /\ req[p].pc = "pending") =>
    \A q \in Procs \ {p} : CanProceed(q)

\* while r1's quiz request waits for the backend, a submit with an attachment
\* has run from start to finish in r2: the attachment is in the folder, was not
\* there when r1 listed it, and the ledger holds the new row
C17_Witness ==
  /\ req["r1"].op = "quiz" /\ req["r1"].pc = "pending"
  /\ req["r2"].op = "submit" /\ req["r2"].pc = "done" /\ req["r2"].resp.body = <<"Submitted">>
  /\ req["r2"].fn # NoName
  /\ \E i \in 1..Len(uploads[1]) : uploads[1][i].uid = req["r2"].fn.uid
  /\ \A i \in 1..Len(req["r1"].class_files) : req["r1"].class_files[i].uid # req["r2"].fn.uid
  /\ \E r \in submissions : r.filename = req["r2"].fn

\* context p lists the class folder and builds its corpus in this step
BuildsCorpus(p) == req[p].op = "quiz" /\ req[p].pc = "corpus" /\ req'[p] # req[p]

\* the files of a folder that have an allowed extension, in listing order
Eligible(listing) ==
  SelectSeq(listing, LAMBDA f : f.ext # "" /\ Lower(f.ext) \in ALLOWED_EXTENSIONS)

\* C18: the step in which a request builds its corpus reads the class folder
\* as it is in that step: the files it works on are the eligible files stored
\* now, every readable file with text among them, however recently stored, has
\* its text in the corpus, and a request of another context that worked on the
\* same files has the same corpus.
C18_NoCaching ==
  [][\A p \in Procs : BuildsCorpus(p) =>
       LET L == uploads[req[p].arg] IN
         /\ req'[p].class_files = Eligible(L)
         /\ \A i \in 1..Len(L) :
              (Extractable(L[i]) /\ ~Raising(L[i]) /\ ~Blank(TextOf(L[i]))) =>
                Contains(req'[p].full_text, TextOf(L[i]))
         /\ \A q \in Procs \ {p} :
              (req[q].op = "quiz" /\ req[q].arg = req[p].arg
               /\ req[q].class_files = req'[p].class_files) =>
                req[q].full_text = req'[p].full_text]_vars

\* r1's request built its corpus from the one file the class had; a material
\* was then uploaded, and r2's request, made while r1's is still waiting,
\* worked on both files and has the new material's text in its corpus
C18_Witness ==
  /\ req["r1"].op = "quiz" /\ req["r1"].pc = "pending" /\ Len(req["r1"].class_files) = 1
  /\ req["r2"].op = "quiz" /\ req["r2"].pc = "pending" /\ req["r2"].arg = 1
  /\ Len(req["r2"].class_files) = 2
  /\ \E i \in 1..2 :
       LET f == req["r2"].class_files[i] IN
         /\ f.via = "upload" /\ f.uid = 2 /\ f.uid # req["r1"].class_files[1].uid
         /\ Contains(req["r2"].full_text, TextOf(f))
  /\ req["r2"].full_text # req["r1"].full_text

\* the text extracted from a file as the specification defines it: nothing for
\* a file that is not extracted or whose reading raises; else its non-empty
\* pages in order, joined by newline
ExtractedText(f) ==
  IF ~Extractable(f) \/ Raising(f) THEN <<>>
  ELSE JoinPages(SelectSeq(f.content, LAMBDA t : t # <<>>), 1)

\* the non-empty extracted texts of files[i..], each followed by one newline
RECURSIVE Concatenated(_, _)
Concatenated(files, i) ==
  IF i > Len(files) THEN <<>>
  ELSE (IF ExtractedText(files[i]) = <<>> THEN <<>> ELSE ExtractedText(files[i]) \o <<NL>>)
       \o Concatenated(files, i + 1)

\* C19 as stated: the corpus is the concatenation, in the order the files are
\* processed, of the extracted text of each eligible file followed by one
\* newline, over the files whose extracted text is non-empty; a file whose
\* extracted text is empty, such as an empty plain-text file, adds nothing,
\* not even a newline.  (Stated for folders in which no file raises while it
\* is read: what a raising file adds is the matter of C11.)
C19_AsStated ==
  \A p \in Procs :
    (/\ PastCorpus(p)
     /\ \A i \in 1..Len(req[p].class_files) : ~Raising(req[p].class_files[i])) =>
      req[p].full_text = Concatenated(req[p].class_files, 1)

====
